---- MODULE Spec2Model ----
(***************************************************************************)
(* A model of the Echo360 bulk downloader (src/main.py).                   *)
(*                                                                         *)
(* Four specifications share the variables below:                          *)
(*   Spec          one run of run_downloader, from the command line to     *)
(*                 "Download complete!" or sys.exit                        *)
(*   SpecSyllabus  extract_lesson_ids applied to a syllabus document       *)
(*   SpecMedia     get_media_download_links applied to a /media response   *)
(*   SpecM3u8      get_m3u8_download_links applied to a classroom page     *)
(*                                                                         *)
(* A Python call that returns or raises is modelled by a record            *)
(* [err |-> "", val |-> v] (returned v) or [err |-> msg, val |-> <<>>]     *)
(* (raised an exception whose text is msg).                                *)
(***************************************************************************)
EXTENDS Integers, Sequences, FiniteSets, TLC

VARIABLES
    pc,                      \* position of the single thread of control
    url,                     \* args.url: <<>> is None, <<u>> a given URL
    experimental_downloader, \* args.experimental_downloader
    start_index,             \* args.start_index (--skip)
    base_url,                \* the module-level global
    url_type,                \* "section" | "lesson" ("" before parse_url returns)
    page_id,                 \* the id parse_url captured ("" before)
    lesson_ids,              \* download_multiple_lessons: extracted lesson ids
    lesson_index,            \* download_lessons: the loop variable
    result,                  \* what the last resolver call returned or raised
    media_urls,              \* the URL list handed to download_medias / download_m3u8_videos
    index,                   \* the enumerate() position inside the transfer loop
    dir_files,               \* file names written into the current lesson's output_dir
    cookie_reads,            \* number of calls of read_cookies_file so far
    fetched,                 \* requests.get calls made so far, in order
    transferred,             \* lessons handed to the transfer loop so far, in order
    failures,                \* exceptions raised while a lesson was downloaded
    stdout,                  \* lines printed (as a set)
    exit_msg,                \* the argument of sys.exit ("" while running)
    response                 \* SpecSyllabus/SpecMedia/SpecM3u8: the HTTP response given

vars == <<pc, url, experimental_downloader, start_index, base_url, url_type, page_id,
          lesson_ids, lesson_index, result, media_urls, index, dir_files,
          cookie_reads, fetched, transferred, failures, stdout, exit_msg, response>>

run_vars == <<url, experimental_downloader, start_index, base_url, url_type, page_id,
              lesson_ids, lesson_index, media_urls, index, dir_files,
              cookie_reads, fetched, transferred, failures, stdout, exit_msg>>

----------------------------------------------------------------------------
(* Bounds of the model *)

\* nodes (lessons, groups, others) in one syllabus document
MaxNodes == 3
\* media variants in one lesson's metadata, over the four video slots
MaxVariants == 4
\* "uri" entries in one classroom page
MaxMatches == 3
\* largest --skip value tried
MaxSkip == 4

----------------------------------------------------------------------------
(* Python values *)

Ok(v) == [err |-> "", val |-> v]
Raise(msg) == [err |-> msg, val |-> <<>>]

Range(s) == {s[i] : i \in DOMAIN s}

RECURSIVE Concat(_)
\* the concatenation of a sequence of sequences (lesson_ids += ...)
Concat(ss) == IF ss = <<>> THEN <<>> ELSE Head(ss) \o Concat(Tail(ss))

\* every ordering of the elements of a finite set
RECURSIVE Orderings(_)
Orderings(S) ==
    IF S = {} THEN {<<>>}
    ELSE UNION {{<<x>> \o p : p \in Orderings(S \ {x})} : x \in S}

\* what the pure-function specifications and an idle run leave unused
NoResponse == [status |-> 0, content_type |-> "", parses |-> FALSE, body |-> <<>>]
NoResult == [err |-> "not called", val |-> <<>>]

\* download_syllabus / download_lesson_info: the response checks before the
\* payload is used
download_json(resp) ==
    IF resp.status # 200 THEN Raise("HTTPError")
    ELSE IF resp.content_type # "application/json"
         THEN Raise("Bad response (are your cookies up to date?)")
    ELSE IF ~resp.parses THEN Raise("Could not parse response")
    ELSE Ok(resp.body)

JsonResponse(body) ==
    [status |-> 200, content_type |-> "application/json", parses |-> TRUE, body |-> body]

BadResponses ==
    {[status |-> 403, content_type |-> "text/html", parses |-> FALSE, body |-> <<>>],
     [status |-> 200, content_type |-> "text/html", parses |-> FALSE, body |-> <<>>],
     [status |-> 200, content_type |-> "application/json", parses |-> FALSE, body |-> <<>>]}

----------------------------------------------------------------------------
(* The syllabus document and extract_lesson_ids *)

LessonIdSet == {"L1", "L2"}

LessonNode(hc, hv, id) ==
    [type |-> "SyllabusLessonType",
     lesson |-> [hasContent |-> hc, hasVideo |-> hv, lesson |-> [id |-> id]]]

GroupNode(children) == [type |-> "SyllabusGroupType", lessons |-> children]

OtherNode == [type |-> "SyllabusOtherType"]

LeafNodes ==
    {LessonNode(hc, hv, id) : hc \in BOOLEAN, hv \in BOOLEAN, id \in LessonIdSet}
        \cup {OtherNode}

RECURSIVE Trees(_), Forests(_)
\* the syllabus entries with exactly n nodes
Trees(n) ==
    IF n = 0 THEN {}
    ELSE (IF n = 1 THEN LeafNodes ELSE {}) \cup {GroupNode(f) : f \in Forests(n - 1)}
\* the entry lists with exactly n nodes in all
Forests(n) ==
    IF n = 0 THEN {<<>>}
    ELSE UNION {{<<t>> \o f : t \in Trees(k), f \in Forests(n - k)} : k \in 1..n}

\* the syllabus documents of at most n nodes, and one without its 'data' list
Syllabi(n) ==
    {[data |-> f] : f \in UNION {Forests(k) : k \in 0..n}}
        \cup {[message |-> "unexpected"]}

lesson_is_eligible_either(lesson) == lesson.hasContent = TRUE \/ lesson.hasVideo = TRUE

\* hasContent is True and hasVideo is True
lesson_is_eligible(lesson) == lesson.hasContent = TRUE /\ lesson.hasVideo = TRUE

RECURSIVE extract_lesson_ids_recursive(_)
extract_lesson_ids_recursive(syllabus_entry) ==
    IF syllabus_entry.type = "SyllabusLessonType"
    THEN IF lesson_is_eligible(syllabus_entry.lesson)
         THEN <<syllabus_entry.lesson.lesson.id>>
         ELSE <<>>
    ELSE IF syllabus_entry.type = "SyllabusGroupType"
    THEN Concat([i \in DOMAIN syllabus_entry.lessons |->
                    extract_lesson_ids_recursive(syllabus_entry.lessons[i])])
    ELSE <<>>

extract_lesson_ids(syllabus_json) ==
    IF "data" \notin DOMAIN syllabus_json
    THEN Raise("Some fields missing (please report this!)")
    ELSE Ok(Concat([i \in DOMAIN syllabus_json.data |->
                       extract_lesson_ids_recursive(syllabus_json.data[i])]))

----------------------------------------------------------------------------
(* Lesson media metadata and get_media_download_links *)

DOWNLOAD_SD_VIDEO_FILES == FALSE
DOWNLOAD_HD_VIDEO_FILES == TRUE
DOWNLOAD_AUDIO_FILES == FALSE

\* A string is modelled by its tokens: a URL by its separators ("/") and the
\* runs of characters between them.
S3Urls ==
    {<<"https:", "/", "/", "s3", "/", "media", "/", "hd1.mp4">>,
     <<"https:", "/", "/", "s3", "/", "media", "/", "hd2.mp4">>}
AudioUrl == <<"https:", "/", "/", "s3", "/", "media", "/", "audio1.mp3">>

Widths == {720, 1080}

Variants == [width : Widths, s3Url : S3Urls]

VideoKeys == <<"primaryFiles", "secondaryFiles", "tertiaryFiles", "quaternaryFiles">>

\* how many variants each of the four slots holds, at most n in all
SlotLengths(n) ==
    {l \in [1..4 -> 0..n] : l[1] + l[2] + l[3] + l[4] <= n}

\* lesson_info['data'][0]['video']['media']['media']['current']
CurrentMedia(n) ==
    UNION {[primaryFiles : [1..l[1] -> Variants],
            secondaryFiles : [1..l[2] -> Variants],
            tertiaryFiles : [1..l[3] -> Variants],
            quaternaryFiles : [1..l[4] -> Variants],
            audioFiles : {<<[s3Url |-> AudioUrl]>>}] : l \in SlotLengths(n)}

\* the lesson metadata documents with at most n variants, and one whose
\* 'data' list is empty
LessonInfos(n) ==
    {[data |-> <<[hasContent |-> hc, hasVideo |-> hv,
                  video |-> [media |-> [media |-> [current |-> m]]]]>>] :
        hc \in BOOLEAN, hv \in BOOLEAN, m \in CurrentMedia(n)}
        \cup {[data |-> <<>>]}

\* the responses requests.get can give for /lesson/{id}/media
MediaResponses(n) == {JsonResponse(i) : i \in LessonInfos(n)} \cup BadResponses

versions_count_ok_at_least(versions) == Len(versions) >= 2

\* not (len(versions) != 2)
versions_count_ok(versions) == Len(versions) = 2

order_by_width_never(versions) == versions

\* if versions[0]['width'] > versions[1]['width']: versions = versions[::-1]
order_by_width(versions) ==
    IF versions[1].width > versions[2].width
    THEN <<versions[2], versions[1]>>
    ELSE versions

\* what one slot with two variants appends to media_urls
slot_urls(versions) ==
    (IF DOWNLOAD_SD_VIDEO_FILES THEN <<order_by_width(versions)[1].s3Url>> ELSE <<>>)
        \o (IF DOWNLOAD_HD_VIDEO_FILES THEN <<order_by_width(versions)[2].s3Url>> ELSE <<>>)

RECURSIVE media_links_from(_, _, _)
\* the for loop over the four keys, from key number k on, then the audio files
media_links_from(media, k, urls) ==
    IF k > Len(VideoKeys)
    THEN Ok(urls \o (IF DOWNLOAD_AUDIO_FILES
                     THEN [i \in DOMAIN media.audioFiles |-> media.audioFiles[i].s3Url]
                     ELSE <<>>))
    ELSE LET versions == media[VideoKeys[k]] IN
         IF Len(versions) = 0 THEN media_links_from(media, k + 1, urls)
         ELSE IF ~versions_count_ok(versions)
              THEN Raise("Unexpected number of video quality types found")
         ELSE media_links_from(media, k + 1, urls \o slot_urls(versions))

\* get_media_download_links, given the response download_lesson_info receives
get_media_download_links(resp) ==
    LET lesson_info == download_json(resp) IN
    IF lesson_info.err # "" THEN lesson_info
    ELSE IF Len(lesson_info.val.data) = 0
    THEN Raise("Some fields missing while parsing lesson info (please report this!)")
    ELSE LET d == lesson_info.val.data[1] IN
         IF d.hasContent = FALSE \/ d.hasVideo = FALSE THEN Ok(<<>>)
         ELSE media_links_from(d.video.media.media.current, 1, <<>>)

----------------------------------------------------------------------------
(* The classroom page and get_m3u8_download_links *)

\* In the page's escaped JSON "\\/" is an escaped separator (backslash, slash).
ManifestNames ==
    <<"s1_a.m3u8", "s1_av.m3u8", "s1_v.m3u8", "s2_a.m3u8", "s2_av.m3u8", "s2_v.m3u8">>

\* position of a file name in lexicographic order (the sort key's order)
NameRank(name) == CHOOSE i \in DOMAIN ManifestNames : ManifestNames[i] = name

PageNames == {"s1_av.m3u8", "s2_av.m3u8", "s1_v.m3u8", "s1_a.m3u8", "s3_av.m3u8"}
PageDirs == {"a", "b"}

\* the text after \"uri\":\" of one entry of the page, up to its '?'
RawUris ==
    {<<"https:", "\\/", "\\/", "h", "\\/", d, "\\/", f>> : d \in PageDirs, f \in PageNames}

\* the pages with at most n "uri" entries, as the sequence of those entries
PageTexts(n) == UNION {[1..k -> RawUris] : k \in 0..n}

\* M3U8_URL_REGEX on one entry: https:\/\/ ... \/s[0-2]_(a|v|av).m3u8
M3U8_URL_REGEX(raw) ==
    /\ Len(raw) >= 5
    /\ raw[1] = "https:" /\ raw[2] = "\\/" /\ raw[3] = "\\/"
    /\ raw[Len(raw) - 1] = "\\/"
    /\ raw[Len(raw)] \in Range(ManifestNames)

\* re.findall(M3U8_URL_REGEX, response.text)
findall(text) == SelectSeq(text, M3U8_URL_REGEX)

\* url.endswith("_av.m3u8")
endswith_av(raw) == raw[Len(raw)] \in {"s0_av.m3u8", "s1_av.m3u8", "s2_av.m3u8"}

\* url.replace(r"\/", "/")
unescape(raw) == [i \in DOMAIN raw |-> IF raw[i] = "\\/" THEN "/" ELSE raw[i]]

\* url.split('/')[-1]
last_segment(u) ==
    LET slashes == {i \in DOMAIN u : u[i] = "/"}
        from == IF slashes = {} THEN 1
                ELSE 1 + CHOOSE i \in slashes : \A j \in slashes : j <= i
    IN SubSeq(u, from, Len(u))

sort_key(u) == NameRank(last_segment(u)[1])

RECURSIVE insert_sorted(_, _)
\* u put after every element whose key is not greater (a stable insertion)
insert_sorted(sorted, u) ==
    IF sorted = <<>> THEN <<u>>
    ELSE IF sort_key(Head(sorted)) <= sort_key(u)
         THEN <<Head(sorted)>> \o insert_sorted(Tail(sorted), u)
    ELSE <<u>> \o sorted

RECURSIVE stable_sort(_)
\* list.sort(key=...): stable, ascending by key
stable_sort(urls) ==
    IF urls = <<>> THEN <<>>
    ELSE insert_sorted(stable_sort(SubSeq(urls, 1, Len(urls) - 1)), urls[Len(urls)])

\* lines 419-428, given the list list(set(...)) produced
m3u8_links_of(found_list) ==
    LET kept == SelectSeq(found_list, endswith_av) IN
    IF Len(kept) = 0 THEN Raise("No video URLs found")
    ELSE Ok(stable_sort([i \in DOMAIN kept |-> unescape(kept[i])]))

\* list(set(...)) enumerates the set in hash order, which differs from one
\* process to the next: each ordering is a possible outcome.
m3u8_links_any_order(found) == {m3u8_links_of(found_list) : found_list \in Orderings(found)}

\* get_m3u8_download_links, given the response requests.get receives: every
\* outcome it can have
get_m3u8_download_links(resp) ==
    IF resp.status # 200 THEN {Raise("HTTPError")}
    ELSE m3u8_links_any_order(Range(findall(resp.body)))

PageResponse(text) ==
    [status |-> 200, content_type |-> "text/html", parses |-> FALSE, body |-> text]

PageResponses(n) ==
    {PageResponse(t) : t \in PageTexts(n)}
        \cup {[status |-> 403, content_type |-> "text/html", parses |-> FALSE, body |-> <<>>]}

----------------------------------------------------------------------------
(* URLs the user can give, and parse_url *)

Urls ==
    {scheme \o host \o path :
        scheme \in {<<"https:", "/", "/">>, <<"http:", "/", "/">>},
        host \in {<<"echo360.net.au">>, <<>>},
        path \in {<<>>} \cup
                 {<<"/", kind, "/">> \o id \o <<"/", tail>> :
                     kind \in {"section", "lesson", "other"},
                     id \in {<<"abc">>, <<>>},
                     tail \in {"home", "homework", "classroom"}}}

\* the tokens that begin with "home" / with "classroom" (the path patterns
\* are not anchored at their end)
StartsWithHome == {"home", "homework"}
StartsWithClassroom == {"classroom"}

\* ^/{word}/([^/]+)/{tail...}
path_matches(path_url, word, tails) ==
    /\ Len(path_url) >= 6
    /\ path_url[1] = "/" /\ path_url[2] = word /\ path_url[3] = "/"
    /\ path_url[4] # "/" /\ path_url[5] = "/"
    /\ path_url[6] \in tails

parse_url(u) ==
    IF /\ Len(u) >= 5
       /\ u[1] = "https:" /\ u[2] = "/" /\ u[3] = "/" /\ u[4] # "/" /\ u[5] = "/"
    THEN LET path_url == SubSeq(u, 5, Len(u)) IN
         IF path_matches(path_url, "section", StartsWithHome)
         THEN Ok([base_url |-> SubSeq(u, 1, 4), url_type |-> "section",
                  page_id |-> path_url[4]])
         ELSE IF path_matches(path_url, "lesson", StartsWithClassroom)
         THEN Ok([base_url |-> SubSeq(u, 1, 4), url_type |-> "lesson",
                  page_id |-> path_url[4]])
         ELSE Raise("Invalid URL format")
    ELSE Raise("Invalid URL format")

----------------------------------------------------------------------------
(* What the network can answer during a run *)

\* download_syllabus followed by extract_lesson_ids, on one response
syllabus_outcome(resp) ==
    LET syllabus_json == download_json(resp) IN
    IF syllabus_json.err # "" THEN [at |-> "download_syllabus", r |-> syllabus_json]
    ELSE [at |-> "extract_lesson_ids", r |-> extract_lesson_ids(syllabus_json.val)]

SyllabusOutcomes ==
    {syllabus_outcome(resp) : resp \in {JsonResponse(d) : d \in Syllabi(MaxNodes)}
                                        \cup BadResponses}

MediaOutcomes == {get_media_download_links(resp) : resp \in MediaResponses(MaxVariants)}

M3u8Outcomes == UNION {get_m3u8_download_links(resp) : resp \in PageResponses(MaxMatches)}

\* read_cookies_file returns the cookies or raises
CookieOutcomes ==
    {Ok(<<"cookies">>), Raise("Cookie file must not be empty"),
     Raise("Not a recognized cookie file"),
     Raise("Invalid number of columns in cookies file"), Raise("No cookies found")}

----------------------------------------------------------------------------
(* One run of run_downloader *)

output_dir == <<"output">>

\* "Lecture {lesson_index + 1}"
lecture_label(i) == <<"Lecture", i + 1>>

\* os.path.join(output_dir, f"Lecture {lesson_index + 1}") in section mode,
\* output_dir itself for a single lesson
lesson_output_dir == 
    IF url_type = "section" THEN output_dir \o lecture_label(lesson_index) ELSE output_dir

\* the id handed to download_lesson_*_version
lesson_id ==
    IF url_type = "section" THEN lesson_ids[lesson_index + 1] ELSE page_id

first_lesson_index_zero(skip) == 0

\* range(start_index, len(lesson_ids)) starts at start_index
first_lesson_index(skip) == skip

after_lesson_exception_skip(type, e) == [pc |-> "lesson_done", exit_msg |-> <<>>]

after_lesson_exception_retry(type, e) == [pc |-> "resolve", exit_msg |-> <<>>]

\* download_lessons has no handler; download_multiple_lessons and
\* download_single_lesson catch the exception and sys.exit
after_lesson_exception(type, e) ==
    [pc |-> "exit",
     exit_msg |-> IF type = "section"
                  THEN <<"Error while downloading lectures: ", e>>
                  ELSE <<"Error while downloading lecture: ", e>>]

prompt_after_invalid_exit(e) == [pc |-> "exit", exit_msg |-> <<"Error: ", e>>]

\* get_download_target_from_user: except Exception: pass, then the loop goes round
prompt_after_invalid(e) == [pc |-> "prompt", exit_msg |-> <<>>]

basic_version_links_unchecked(links) == Ok(links)

\* download_lesson_basic_version, between the two calls
basic_version_links(links) ==
    IF Len(links) = 0 THEN Raise("No downloadable content found for lecture")
    ELSE Ok(links)

\* file_name = unquote(urlparse(media_url).path).split("/")[-1]
media_file_name(media_url) == last_segment(media_url)

\* f"hd{index + 1}.mp4"
video_file_name(i) == <<"hd", i + 1, ".mp4">>

Exit(msg) ==
    /\ pc' = "exit"
    /\ exit_msg' = msg

LessonFails(e) ==
    LET next == after_lesson_exception(url_type, e) IN
    /\ pc' = next.pc
    /\ exit_msg' = next.exit_msg
    /\ failures' = Append(failures, [index |-> lesson_index, err |-> e])

Init ==
    /\ pc = "start"
    /\ url \in {<<>>} \cup {<<u>> : u \in Urls}
    /\ experimental_downloader \in BOOLEAN
    /\ start_index \in 0..MaxSkip
    /\ base_url = <<>>
    /\ url_type = ""
    /\ page_id = ""
    /\ lesson_ids = <<>>
    /\ lesson_index = 0
    /\ result = NoResult
    /\ media_urls = <<>>
    /\ index = 0
    /\ dir_files = {}
    /\ cookie_reads = 0
    /\ fetched = <<>>
    /\ transferred = <<>>
    /\ failures = <<>>
    /\ stdout = {}
    /\ exit_msg = <<>>
    /\ response = NoResponse

\* run_downloader, lines 84-89
CheckYtDlp ==
    /\ pc = "start"
    /\ \E yt_dlp_is_installed \in BOOLEAN :
        IF experimental_downloader /\ ~yt_dlp_is_installed
        THEN /\ Exit(<<"Error: yt-dlp executable not found">>)
             /\ UNCHANGED stdout
        ELSE /\ pc' = "target"
             /\ stdout' = IF experimental_downloader
                          THEN stdout \cup {<<"### Using experimental downloader ###">>}
                          ELSE stdout
             /\ UNCHANGED exit_msg
    /\ UNCHANGED <<url, experimental_downloader, start_index, base_url, url_type, page_id,
                   lesson_ids, lesson_index, result, media_urls, index, dir_files,
                   cookie_reads, fetched, transferred, failures, response>>

\* run_downloader, lines 91-97
ClassifyArgument ==
    /\ pc = "target"
    /\ IF url = <<>>
       THEN /\ pc' = "prompt"
            /\ UNCHANGED <<base_url, url_type, page_id, exit_msg>>
       ELSE LET parsed == parse_url(url[1]) IN
            IF parsed.err # ""
            THEN /\ Exit(<<"Error: ", parsed.err>>)
                 /\ UNCHANGED <<base_url, url_type, page_id>>
            ELSE /\ base_url' = parsed.val.base_url
                 /\ url_type' = parsed.val.url_type
                 /\ page_id' = parsed.val.page_id
                 /\ pc' = "cookies"
                 /\ UNCHANGED exit_msg
    /\ UNCHANGED <<url, experimental_downloader, start_index,
                   lesson_ids, lesson_index, result, media_urls, index, dir_files,
                   cookie_reads, fetched, transferred, failures, stdout, response>>

\* get_download_target_from_user: one round of the while loop
PromptForUrl ==
    /\ pc = "prompt"
    /\ \E typed \in Urls :
        LET parsed == parse_url(typed) IN
        IF parsed.err # ""
        THEN /\ stdout' = stdout \cup {<<"Error: Invalid URL format">>}
             /\ pc' = prompt_after_invalid(parsed.err).pc
             /\ exit_msg' = prompt_after_invalid(parsed.err).exit_msg
             /\ UNCHANGED <<base_url, url_type, page_id>>
        ELSE /\ base_url' = parsed.val.base_url
             /\ url_type' = parsed.val.url_type
             /\ page_id' = parsed.val.page_id
             /\ pc' = "cookies"
             /\ UNCHANGED <<stdout, exit_msg>>
    /\ UNCHANGED <<url, experimental_downloader, start_index,
                   lesson_ids, lesson_index, result, media_urls, index, dir_files,
                   cookie_reads, fetched, transferred, failures, response>>

\* run_downloader, lines 99-110, and the first print of the function called
ReadCookies ==
    /\ pc = "cookies"
    /\ cookie_reads' = cookie_reads + 1
    /\ \E cookies \in CookieOutcomes :
        IF cookies.err # ""
        THEN /\ Exit(<<"Error reading cookies file: ", cookies.err>>)
             /\ UNCHANGED stdout
        ELSE /\ pc' = IF url_type = "section" THEN "syllabus" ELSE "resolve"
             /\ stdout' = stdout \cup {IF url_type = "section"
                                       THEN <<"Getting download info...">>
                                       ELSE <<"Downloading lecture:">>}
             /\ UNCHANGED exit_msg
    /\ UNCHANGED <<url, experimental_downloader, start_index, base_url, url_type, page_id,
                   lesson_ids, lesson_index, result, media_urls, index, dir_files,
                   fetched, transferred, failures, response>>

\* download_multiple_lessons, lines 163-173, and the start of download_lessons
GetSyllabus ==
    /\ pc = "syllabus"
    /\ fetched' = Append(fetched, [what |-> "syllabus", id |-> page_id, index |-> -1])
    /\ \E got \in SyllabusOutcomes :
        IF got.r.err # ""
        THEN /\ Exit(IF got.at = "download_syllabus"
                     THEN <<"Error getting lectures info: ", got.r.err>>
                     ELSE <<"Error parsing download info: ", got.r.err>>)
             /\ UNCHANGED <<lesson_ids, lesson_index, stdout>>
        ELSE /\ lesson_ids' = got.r.val
             /\ stdout' = stdout \cup {<<"lecture recordings found: ", Len(got.r.val)>>}
             /\ lesson_index' = first_lesson_index(start_index)
             /\ pc' = "loop"
             /\ UNCHANGED exit_msg
    /\ UNCHANGED <<url, experimental_downloader, start_index, base_url, url_type, page_id,
                   result, media_urls, index, dir_files,
                   cookie_reads, transferred, failures, response>>

\* download_lessons, lines 300-306: the loop test and the label; past the
\* last lesson, download_multiple_lessons line 184
NextLesson ==
    /\ pc = "loop"
    /\ IF lesson_index < Len(lesson_ids)
       THEN /\ stdout' = stdout \cup {lecture_label(lesson_index)}
            /\ pc' = "resolve"
       ELSE /\ stdout' = stdout \cup {<<"Download complete!">>}
            /\ pc' = "done"
    /\ UNCHANGED <<url, experimental_downloader, start_index, base_url, url_type, page_id,
                   lesson_ids, lesson_index, result, media_urls, index, dir_files,
                   cookie_reads, fetched, transferred, failures, exit_msg, response>>

\* download_lesson_basic_version line 318 / download_lesson_experimental_version
\* line 405: the resolver is called
ResolveLesson ==
    /\ pc = "resolve"
    /\ fetched' = Append(fetched,
                         [what |-> IF experimental_downloader THEN "classroom" ELSE "media",
                          id |-> lesson_id, index |-> lesson_index])
    /\ \E links \in IF experimental_downloader THEN M3u8Outcomes ELSE MediaOutcomes :
        /\ result' = links
        /\ IF links.err # ""
           THEN LessonFails(links.err)
           ELSE /\ pc' = "links"
                /\ UNCHANGED <<exit_msg, failures>>
    /\ UNCHANGED <<url, experimental_downloader, start_index, base_url, url_type, page_id,
                   lesson_ids, lesson_index, media_urls, index, dir_files,
                   cookie_reads, transferred, stdout, response>>

\* lines 320-323 / 407-408: the list is handed to the transfer loop, which
\* creates the output directory
BeginTransfer ==
    /\ pc = "links"
    /\ LET checked == IF experimental_downloader THEN Ok(result.val)
                      ELSE basic_version_links(result.val) IN
       IF checked.err # ""
       THEN /\ LessonFails(checked.err)
            /\ UNCHANGED <<media_urls, index, dir_files, transferred>>
       ELSE /\ media_urls' = checked.val
            /\ index' = 0
            /\ dir_files' = {}
            /\ transferred' = Append(transferred,
                                     [id |-> lesson_id, index |-> lesson_index,
                                      dir |-> lesson_output_dir])
            /\ pc' = "transfer"
            /\ UNCHANGED <<exit_msg, failures>>
    /\ UNCHANGED <<url, experimental_downloader, start_index, base_url, url_type, page_id,
                   lesson_ids, lesson_index, result, cookie_reads, fetched, stdout, response>>

\* download_medias / download_m3u8_videos: one round of the for loop, or its end
TransferItem ==
    /\ pc = "transfer"
    /\ IF index < Len(media_urls)
       THEN \E transfer_ok \in BOOLEAN :
            IF transfer_ok
            THEN /\ dir_files' = dir_files \cup
                        {IF experimental_downloader THEN video_file_name(index)
                         ELSE media_file_name(media_urls[index + 1])}
                 /\ index' = index + 1
                 /\ UNCHANGED <<pc, exit_msg, failures>>
            ELSE /\ LessonFails(IF experimental_downloader
                                THEN "External download command failed" ELSE "HTTPError")
                 /\ UNCHANGED <<dir_files, index>>
       ELSE /\ pc' = "lesson_done"
            /\ UNCHANGED <<dir_files, index, exit_msg, failures>>
    /\ UNCHANGED <<url, experimental_downloader, start_index, base_url, url_type, page_id,
                   lesson_ids, lesson_index, result, media_urls,
                   cookie_reads, fetched, transferred, stdout, response>>

\* download_lesson_*_version returns: the next round of download_lessons, or
\* download_single_lesson line 200
LessonDone ==
    /\ pc = "lesson_done"
    /\ IF url_type = "section"
       THEN /\ lesson_index' = lesson_index + 1
            /\ pc' = "loop"
            /\ UNCHANGED stdout
       ELSE /\ stdout' = stdout \cup {<<"Download complete!">>}
            /\ pc' = "done"
            /\ UNCHANGED lesson_index
    /\ result' = NoResult
    /\ media_urls' = <<>>
    /\ index' = 0
    /\ dir_files' = {}
    /\ UNCHANGED <<url, experimental_downloader, start_index, base_url, url_type, page_id,
                   lesson_ids, cookie_reads, fetched, transferred, failures, exit_msg,
                   response>>

Next ==
    \/ CheckYtDlp
    \/ ClassifyArgument
    \/ PromptForUrl
    \/ ReadCookies
    \/ GetSyllabus
    \/ NextLesson
    \/ ResolveLesson
    \/ BeginTransfer
    \/ TransferItem
    \/ LessonDone

Spec == Init /\ [][Next]_vars

----------------------------------------------------------------------------
(* The resolvers on their own: one call on one response *)

\* the variables of the run, at rest
NoRun ==
    /\ url = <<>>
    /\ experimental_downloader = FALSE
    /\ start_index = 0
    /\ base_url = <<>>
    /\ url_type = ""
    /\ page_id = ""
    /\ lesson_ids = <<>>
    /\ lesson_index = 0
    /\ media_urls = <<>>
    /\ index = 0
    /\ dir_files = {}
    /\ cookie_reads = 0
    /\ fetched = <<>>
    /\ transferred = <<>>
    /\ failures = <<>>
    /\ stdout = {}
    /\ exit_msg = <<>>

InitSyllabus ==
    /\ pc = "call"
    /\ response \in {JsonResponse(d) : d \in Syllabi(MaxNodes)} \cup BadResponses
    /\ result = NoResult
    /\ NoRun

\* download_syllabus, then extract_lesson_ids on what it returned
ExtractLessonIds ==
    /\ pc = "call"
    /\ result' = syllabus_outcome(response).r
    /\ pc' = "returned"
    /\ UNCHANGED <<response, run_vars>>

SpecSyllabus == InitSyllabus /\ [][ExtractLessonIds]_vars

InitMedia ==
    /\ pc = "call"
    /\ response \in MediaResponses(MaxVariants)
    /\ result = NoResult
    /\ NoRun

GetMediaDownloadLinks ==
    /\ pc = "call"
    /\ result' = get_media_download_links(response)
    /\ pc' = "returned"
    /\ UNCHANGED <<response, run_vars>>

SpecMedia == InitMedia /\ [][GetMediaDownloadLinks]_vars

InitM3u8 ==
    /\ pc = "call"
    /\ response \in PageResponses(MaxMatches)
    /\ result = NoResult
    /\ NoRun

GetM3u8DownloadLinks ==
    /\ pc = "call"
    /\ result' \in get_m3u8_download_links(response)
    /\ pc' = "returned"
    /\ UNCHANGED <<response, run_vars>>

SpecM3u8 == InitM3u8 /\ [][GetM3u8DownloadLinks]_vars

----------------------------------------------------------------------------
(* Properties *)

LessonFetches == SelectSeq(fetched, LAMBDA f : f.what # "syllabus")

\* how many lessons a section run with no failure has to process
LessonsToDo ==
    IF Len(lesson_ids) > start_index THEN Len(lesson_ids) - start_index ELSE 0

\* C1: in section mode the lessons resolved and the lessons transferred are, in
\* this order and each once, those at the original indices start_index,
\* start_index + 1, ..., the lesson at index i being printed and stored as
\* "Lecture {i+1}"; a run that completes has processed all of them up to the
\* last index, and none at all when start_index >= the number of lessons.
C1_SkipKeepsOriginalNumbering ==
    url_type = "section" =>
        /\ \A j \in DOMAIN LessonFetches :
            /\ LessonFetches[j].index = start_index + j - 1
            /\ LessonFetches[j].index < Len(lesson_ids)
            /\ LessonFetches[j].id = lesson_ids[LessonFetches[j].index + 1]
            /\ <<"Lecture", LessonFetches[j].index + 1>> \in stdout
        /\ \A j \in DOMAIN transferred :
            /\ transferred[j].index = start_index + j - 1
            /\ transferred[j].index < Len(lesson_ids)
            /\ transferred[j].id = lesson_ids[transferred[j].index + 1]
            /\ transferred[j].dir = <<"output", "Lecture", transferred[j].index + 1>>
        /\ Len(transferred) <= Len(LessonFetches)
        /\ \A line \in stdout :
            (Len(line) = 2 /\ line[1] = "Lecture") =>
                (line[2] > start_index /\ line[2] <= Len(lesson_ids))
        /\ pc = "done" =>
            /\ Len(LessonFetches) = LessonsToDo
            /\ Len(transferred) = LessonsToDo

\* a completed section run of three lessons with --skip 1: two were processed
C1_Witness ==
    /\ pc = "done"
    /\ url_type = "section"
    /\ start_index = 1
    /\ Len(lesson_ids) = 3
    /\ Len(transferred) = 2
    /\ transferred[1].dir = <<"output", "Lecture", 2>>

\* C2: in a section run, once the resolution or the transfer of the lesson at
\* index k has failed, the run has ended in sys.exit with that error: nothing
\* was fetched or transferred for an index above k, lesson k was fetched once
\* only, and "Download complete!" was not printed.
C2_FailureAbortsRun ==
    (url_type = "section" /\ failures # <<>>) =>
        /\ Len(failures) = 1
        /\ pc = "exit"
        /\ exit_msg = <<"Error while downloading lectures: ", failures[1].err>>
        /\ \A j \in DOMAIN fetched : fetched[j].index <= failures[1].index
        /\ \A j \in DOMAIN transferred : transferred[j].index <= failures[1].index
        /\ Cardinality({j \in DOMAIN fetched : fetched[j].index = failures[1].index}) = 1
        /\ Cardinality({j \in DOMAIN transferred :
                            transferred[j].index = failures[1].index}) <= 1
        /\ <<"Download complete!">> \notin stdout

\* a transfer failed in a lesson that was not the first processed nor the last
\* of the section
C2_Witness ==
    /\ url_type = "section"
    /\ failures # <<>>
    /\ failures[1].err = "External download command failed"
    /\ failures[1].index > start_index
    /\ failures[1].index + 1 < Len(lesson_ids)
    /\ index > 0

\* C3 as stated: in a section run with the experimental downloader, a lesson
\* whose page yields "No video URLs found" does not abort the run.
C3_AsStated ==
    \A i \in DOMAIN failures :
        (url_type = "section" /\ experimental_downloader
            /\ failures[i].err = "No video URLs found") => pc # "exit"

\* C3 amended: in a section run with the experimental downloader, a lesson
\* whose page yields "No video URLs found" ends the run: the error reaches
\* download_multiple_lessons, which exits with "Error while downloading
\* lectures: No video URLs found"; nothing of that lesson is transferred and
\* no later lesson is resolved or transferred.
C3_NoStreamsAbortsRun ==
    \A i \in DOMAIN failures :
        (url_type = "section" /\ experimental_downloader
            /\ failures[i].err = "No video URLs found") =>
            /\ pc = "exit"
            /\ exit_msg = <<"Error while downloading lectures: ", "No video URLs found">>
            /\ lesson_index = failures[i].index
            /\ \A j \in DOMAIN fetched : fetched[j].index <= failures[i].index
            /\ \A j \in DOMAIN transferred : transferred[j].index < failures[i].index
            /\ <<"Download complete!">> \notin stdout

\* the lesson without streams had a sibling after it
C3_Witness ==
    /\ url_type = "section"
    /\ experimental_downloader
    /\ failures # <<>>
    /\ failures[1].err = "No video URLs found"
    /\ failures[1].index + 1 < Len(lesson_ids)

InvalidUrlExit == <<"Error: ", "Invalid URL format">>
YtDlpMissingExit == <<"Error: yt-dlp executable not found">>

\* nothing is read or fetched before a URL has been classified
NothingBeforeClassified ==
    url_type = "" => (cookie_reads = 0 /\ fetched = <<>> /\ transferred = <<>>)

\* C8 as stated: an invalid URL, given on the command line or typed at the
\* prompt, never aborts the run, and nothing is read or fetched before a URL
\* has been classified.
C8_AsStated ==
    /\ ~(pc = "exit" /\ exit_msg = InvalidUrlExit)
    /\ NothingBeforeClassified

\* C8 amended: an invalid URL typed at the prompt does not abort the run, the
\* user is prompted again; an invalid URL given as the command-line argument
\* ends the run with "Error: Invalid URL format" and the helper message (when
\* the run has not already ended for want of yt-dlp); in both cases nothing is read or fetched before a URL has been classified.
C8_PromptRetriesArgumentExits ==
    /\ (pc = "exit" /\ exit_msg = InvalidUrlExit) =>
            (url # <<>> /\ <<"Error: Invalid URL format">> \notin stdout)
    /\ (url # <<>> /\ parse_url(url[1]).err # "" /\ pc \notin {"start", "target"}) =>
            (pc = "exit" /\ exit_msg \in {InvalidUrlExit, YtDlpMissingExit})
    /\ (<<"Error: Invalid URL format">> \in stdout /\ url_type = "") => pc = "prompt"
    /\ NothingBeforeClassified

\* an invalid URL was typed at the prompt, and the run went on to complete
C8_Witness ==
    /\ <<"Error: Invalid URL format">> \in stdout
    /\ pc = "done"
    /\ url = <<>>
    /\ fetched # <<>>

NoContentExit(type) ==
    <<IF type = "section" THEN "Error while downloading lectures: "
      ELSE "Error while downloading lecture: ",
      "No downloadable content found for lecture">>

\* C9 as stated: when get_media_download_links returns an empty list, the run
\* does not end in sys.exit because of it.
C9_AsStated ==
    (~experimental_downloader /\ result = Ok(<<>>)) => pc # "exit"

\* C9 amended: when get_media_download_links returns an empty list it has not
\* raised, but download_lesson_basic_version raises "No downloadable content
\* found for lecture": nothing of the lesson is transferred and the run ends in
\* sys.exit with that message.
C9_EmptyLinksEndRun ==
    (~experimental_downloader /\ result = Ok(<<>>) /\ pc # "links") =>
        /\ pc = "exit"
        /\ exit_msg = NoContentExit(url_type)
        /\ failures = <<[index |-> lesson_index, err |-> exit_msg[2]]>>
        /\ \A j \in DOMAIN transferred : transferred[j].index # lesson_index
        /\ <<"Download complete!">> \notin stdout

\* a lesson of a section resolved to nothing while a sibling was still to come
C9_Witness ==
    /\ ~experimental_downloader
    /\ result = Ok(<<>>)
    /\ pc = "exit"
    /\ url_type = "section"
    /\ lesson_index + 1 < Len(lesson_ids)

\* C10: a lesson transferred without error has one file per resolved URL in
\* its output directory.
C10_OneFilePerUrl ==
    pc = "lesson_done" => Cardinality(dir_files) = Len(media_urls)

----------------------------------------------------------------------------
(* Properties of extract_lesson_ids (SpecSyllabus) *)

RECURSIVE document_order(_)
\* every node of a list of entries, parents before children, left to right
document_order(entries) ==
    Concat([i \in DOMAIN entries |->
               <<entries[i]>> \o (IF entries[i].type = "SyllabusGroupType"
                                  THEN document_order(entries[i].lessons)
                                  ELSE <<>>)])

IsVideoLesson(node) ==
    /\ node.type = "SyllabusLessonType"
    /\ node.lesson.hasContent
    /\ node.lesson.hasVideo

VideoLessonIds(entries) ==
    LET wanted == SelectSeq(document_order(entries), IsVideoLesson)
    IN [i \in DOMAIN wanted |-> wanted[i].lesson.lesson.id]

HasSyllabus(resp) == download_json(resp).err = "" /\ "data" \in DOMAIN resp.body

\* C4: on a syllabus document with its 'data' list, extract_lesson_ids returns
\* without error the ids of the lesson nodes with hasContent and hasVideo both
\* true, one per such node, in document order, whatever the nesting of the
\* groups; every other node contributes nothing; the document is left as it was.
C4_LessonsInDocumentOrder ==
    [][(pc' = "returned" /\ HasSyllabus(response)) =>
            /\ result' = Ok(VideoLessonIds(response.body.data))
            /\ response' = response]_vars

\* two video lessons at different depths, out of id order
C4_Witness ==
    /\ pc = "returned"
    /\ HasSyllabus(response)
    /\ response.body.data =
            <<GroupNode(<<LessonNode(TRUE, TRUE, "L2")>>), LessonNode(TRUE, TRUE, "L1")>>
    /\ result = Ok(<<"L2", "L1">>)

----------------------------------------------------------------------------
(* Properties of get_media_download_links (SpecMedia) *)

HasLessonInfo(resp) == download_json(resp).err = "" /\ Len(resp.body.data) > 0

CurrentOf(resp) == resp.body.data[1].video.media.media.current

FlagsTrue(resp) == resp.body.data[1].hasContent /\ resp.body.data[1].hasVideo

SlotCounts(resp) == {Len(CurrentOf(resp)[VideoKeys[k]]) : k \in DOMAIN VideoKeys}

HasPair(resp, key) == Len(CurrentOf(resp)[key]) = 2

\* C5: for metadata with both flags true whose slots hold zero or two
\* variants, the result has one URL per slot of two variants, in the order
\* primary, secondary, tertiary, quaternary, and it is the URL of a variant
\* whose width is not below the other's, wherever it stands in the pair.
C5_WiderVariantPerSlot ==
    (pc = "returned" /\ HasLessonInfo(response) /\ FlagsTrue(response)
        /\ SlotCounts(response) \subseteq {0, 2}) =>
        LET pairs == SelectSeq(VideoKeys, LAMBDA key : HasPair(response, key)) IN
        /\ result.err = ""
        /\ Len(result.val) = Len(pairs)
        /\ \A j \in DOMAIN pairs :
            LET versions == CurrentOf(response)[pairs[j]] IN
            \E i \in 1..2 :
                /\ result.val[j] = versions[i].s3Url
                /\ versions[i].width >= versions[3 - i].width

\* the wider variant stands first in the primary pair and second in the
\* secondary pair
C5_Witness ==
    /\ pc = "returned"
    /\ HasLessonInfo(response)
    /\ FlagsTrue(response)
    /\ SlotCounts(response) = {0, 2}
    /\ Len(CurrentOf(response).primaryFiles) = 2
    /\ Len(CurrentOf(response).secondaryFiles) = 2
    /\ CurrentOf(response).primaryFiles[1].width > CurrentOf(response).primaryFiles[2].width
    /\ CurrentOf(response).secondaryFiles[1].width < CurrentOf(response).secondaryFiles[2].width
    /\ result.val = <<CurrentOf(response).primaryFiles[1].s3Url,
                      CurrentOf(response).secondaryFiles[2].s3Url>>
    /\ result.val[1] # result.val[2]

MalformedMedia == Raise("Unexpected number of video quality types found")

\* C6 as stated: metadata with a slot of neither 0 nor 2 variants always makes
\* the resolver raise "Unexpected number of video quality types found".
C6_AsStated ==
    (pc = "returned" /\ HasLessonInfo(response)
        /\ ~(SlotCounts(response) \subseteq {0, 2})) => result = MalformedMedia

\* C6 amended: metadata whose hasContent and hasVideo are both true and which
\* has a slot of neither 0 nor 2 variants makes the resolver raise "Unexpected
\* number of video quality types found" and return no URL, not even those of
\* earlier slots; when one of the flags is false the resolver returns the
\* empty list before it looks at any slot.
C6_MalformedSlotRaises ==
    (pc = "returned" /\ HasLessonInfo(response)
        /\ ~(SlotCounts(response) \subseteq {0, 2})) =>
        result = IF FlagsTrue(response) THEN MalformedMedia ELSE Ok(<<>>)

\* a pair in the primary slot, a single variant in the secondary slot
C6_Witness ==
    /\ pc = "returned"
    /\ HasLessonInfo(response)
    /\ FlagsTrue(response)
    /\ Len(CurrentOf(response).primaryFiles) = 2
    /\ Len(CurrentOf(response).secondaryFiles) = 1
    /\ result = MalformedMedia

----------------------------------------------------------------------------
(* Properties of get_m3u8_download_links (SpecM3u8) *)

\* C7: the list returned holds each combined (_av) manifest URL matched in the
\* page once, without duplicates, holds no audio-only or video-only manifest,
\* is sorted ascending by file name, and is the only list the call can return
\* for that page.
C7_DeterministicSortedLinks ==
    (pc = "returned" /\ result.err = "") =>
        LET matched == {unescape(raw) : raw \in {m \in Range(findall(response.body)) :
                                                     endswith_av(m)}} IN
        /\ Range(result.val) = matched
        /\ Len(result.val) = Cardinality(matched)
        /\ \A i \in DOMAIN result.val : endswith_av(result.val[i])
        /\ \A i, j \in DOMAIN result.val :
            i < j => sort_key(result.val[i]) <= sort_key(result.val[j])
        /\ \A other \in get_m3u8_download_links(response) : other = result

====
